---- MODULE Spec2Model ----
(***************************************************************************)
(* Model of the trello client library's card text codec (Card::render and  *)
(* Card::parse), of List::filter and of Board::retrieve_nested, from       *)
(* src/src/lib.rs.                                                         *)
(*                                                                         *)
(* Text is a sequence of characters; a character is a one-element string.  *)
(* A run draws one input (an edited buffer, a card to render, a list and   *)
(* a label filter, or a board) and executes the operation on it step by    *)
(* step.                                                                   *)
(***************************************************************************)
EXTENDS Integers, Sequences, FiniteSets, TLC

VARIABLES op, pc, card, buffer, contents, name, found, result,
          self, label_filter, filtered, board, response, ret

boardVars == <<board, response, ret>>

vars == <<op, pc, card, buffer, contents, name, found, result,
          self, label_filter, filtered, board, response, ret>>

(***************************************************************************)
(* Bounds of the model.                                                    *)
(***************************************************************************)
MaxBuf == 7
MaxName == 3
MaxDesc == 1
MaxCards == 2
MaxLabels == 2
MaxWsBuf == 6
MaxFetched == 2

(***************************************************************************)
(* Characters and text.                                                    *)
(***************************************************************************)
NL == "\n"
CR == "\r"
EQ == "="
DASH == "-"

SP == " "

Alphabet == {"a", EQ, CR, NL}

\* The characters of a buffer that holds blanks.
WsAlphabet == {"a", SP, EQ, NL}

Text(n) == UNION {[1..k -> Alphabet] : k \in 0..n}

\* str::repeat: n copies of the character ch.
Repeat(ch, n) == [i \in 1..n |-> ch]

\* A variant of str::split that behaves as str::lines does on CRLF input:
\* the carriage return that ends a line is removed with the newline.
RECURSIVE SplitLines(_)
SplitLines(s) ==
    LET strip(l) == IF l # <<>> /\ l[Len(l)] = CR
                    THEN SubSeq(l, 1, Len(l) - 1) ELSE l
    IN  IF \A i \in 1..Len(s) : s[i] # NL
        THEN <<strip(s)>>
        ELSE LET i == CHOOSE i \in 1..Len(s) :
                          s[i] = NL /\ \A j \in 1..(i - 1) : s[j] # NL
             IN  <<strip(SubSeq(s, 1, i - 1))>>
                     \o SplitLines(SubSeq(s, i + 1, Len(s)))

\* buffer.split("\n").collect::<Vec<&str>>(): the pieces between newline
\* characters, in order; always at least one piece, nothing else removed.
RECURSIVE Split(_)
Split(s) ==
    IF \A i \in 1..Len(s) : s[i] # NL
    THEN <<s>>
    ELSE LET i == CHOOSE i \in 1..Len(s) :
                      s[i] = NL /\ \A j \in 1..(i - 1) : s[j] # NL
         IN  <<SubSeq(s, 1, i - 1)>> \o Split(SubSeq(s, i + 1, Len(s)))

\* [..].join("\n"): the pieces with one newline between neighbours.
RECURSIVE Join(_)
Join(lines) ==
    IF lines = <<>> THEN <<>>
    ELSE IF Len(lines) = 1 THEN lines[1]
    ELSE lines[1] \o <<NL>> \o Join(Tail(lines))

\* line.chars().take_while(|c| c == &'=').collect::<String>()
RECURSIVE TakeWhileEq(_)
TakeWhileEq(line) ==
    IF line = <<>> \/ Head(line) # EQ THEN <<>>
    ELSE <<EQ>> \o TakeWhileEq(Tail(line))

\* Delimiter tests a slip in the code would give.
IsDelimiterDash(line) == \A i \in 1..Len(line) : line[i] = DASH
IsDelimiterFixed(line) == line = <<EQ, EQ, EQ, EQ>>
IsDelimiterNonEmpty(line) == line # <<>> /\ TakeWhileEq(line) = line
IsDelimiterPrefix(line) == line # <<>> => Head(line) = EQ

\* The else branch of the test at the head of the loop body: the prefix of
\* '=' characters is the whole line.
IsDelimiter(line) == TakeWhileEq(line) = line

\* formatting::header(text, header_char): the text, then a line of
\* header_char as wide as the text's last line.
header(text, ch) ==
    LET ls == Split(text)
    IN  Join(<<text, Repeat(ch, Len(ls[Len(ls)]))>>)

\* Card::render
render(c) == Join(<<header(c.name, EQ), c.desc>>)

(***************************************************************************)
(* Values of the state.                                                    *)
(***************************************************************************)
NoCard == [name |-> <<>>, desc |-> <<>>]
NoResult == [kind |-> "none", name |-> <<>>, desc |-> <<>>]
CardParseErr == [kind |-> "err", name |-> <<>>, desc |-> <<>>]
Ok(n, d) == [kind |-> "ok", name |-> n, desc |-> d]


\* Option<T>
None == [some |-> FALSE, v |-> <<>>]
Some(x) == [some |-> TRUE, v |-> x]

NoList == [id |-> "", name |-> "", closed |-> FALSE, cards |-> None]

NoBoard == [id |-> "", name |-> "", closed |-> FALSE, url |-> "",
            lists |-> None]

\* Result<T>: nothing returned yet, Ok(v), Err(e).
NoRet == [kind |-> "none", v |-> <<>>, err |-> ""]
RetOk(x) == [kind |-> "ok", v |-> x, err |-> ""]
RetErr(e) == [kind |-> "err", v |-> <<>>, err |-> e]

\* The buffers a user can hand to Card::parse.
Buffers == Text(MaxBuf)

\* The cards Card::render is applied to (name and desc are what it reads).
Cards == [name : Text(MaxName), desc : Text(MaxDesc)]

(***************************************************************************)
(* Card::render followed by Card::parse, and Card::parse on its own.       *)
(***************************************************************************)
ListIdle ==
    /\ self = NoList
    /\ label_filter = <<>>
    /\ filtered = NoList

BoardIdle ==
    /\ board = NoBoard
    /\ response = NoRet
    /\ ret = NoRet

ParseIdle ==
    /\ contents = <<>>
    /\ name = <<>>
    /\ found = FALSE
    /\ result = NoResult

\* Card::parse(buffer) called on an edited buffer.
InitParse ==
    /\ op = "parse"
    /\ pc = "split"
    /\ card = NoCard
    /\ buffer \in Buffers
    /\ ParseIdle
    /\ ListIdle
    /\ BoardIdle

\* Card::parse(card.render()) called on what render produces.
InitRender ==
    /\ op = "render_parse"
    /\ pc = "render"
    /\ card \in Cards
    /\ buffer = <<>>
    /\ ParseIdle
    /\ ListIdle
    /\ BoardIdle

Init == InitParse \/ InitRender

Render ==
    /\ pc = "render"
    /\ buffer' = render(card)
    /\ pc' = "split"
    /\ UNCHANGED <<op, card, contents, name, found, result,
                   self, label_filter, filtered>>
    /\ UNCHANGED boardVars

\* let mut contents = buffer.split("\n").collect::<Vec<&str>>();
ParseSplit ==
    /\ pc = "split"
    /\ contents' = Split(buffer)
    /\ pc' = "first"
    /\ UNCHANGED <<op, card, buffer, name, found, result,
                   self, label_filter, filtered>>
    /\ UNCHANGED boardVars

\* A first step that tests the first line like every other line.
ParseFirstTested ==
    /\ pc = "first"
    /\ found' = FALSE
    /\ IF IsDelimiter(Head(contents))
       THEN name' = <<>> /\ contents' = contents
       ELSE name' = <<Head(contents)>> /\ contents' = Tail(contents)
    /\ pc' = "loop"
    /\ UNCHANGED <<op, card, buffer, result, self, label_filter, filtered>>
    /\ UNCHANGED boardVars

\* let mut name = vec![contents.remove(0)]; let mut found = false;
ParseFirst ==
    /\ pc = "first"
    /\ name' = <<Head(contents)>>
    /\ contents' = Tail(contents)
    /\ found' = FALSE
    /\ pc' = "loop"
    /\ UNCHANGED <<op, card, buffer, result, self, label_filter, filtered>>
    /\ UNCHANGED boardVars

\* str::trim on blanks: the line without its leading and trailing blanks.
RECURSIVE Trim(_)
Trim(l) ==
    IF l = <<>> THEN l
    ELSE IF Head(l) = SP THEN Trim(Tail(l))
    ELSE IF l[Len(l)] = SP THEN Trim(SubSeq(l, 1, Len(l) - 1))
    ELSE l

\* A loop step that trims the line it appends to the name's lines.
ParseLoopPushTrim ==
    /\ pc = "loop"
    /\ contents # <<>>
    /\ ~IsDelimiter(Head(contents))
    /\ name' = Append(name, Trim(Head(contents)))
    /\ contents' = Tail(contents)
    /\ UNCHANGED <<op, pc, card, buffer, found, result,
                   self, label_filter, filtered>>
    /\ UNCHANGED boardVars

\* A loop step that puts the line in front of the name's lines.
ParseLoopPushFront ==
    /\ pc = "loop"
    /\ contents # <<>>
    /\ ~IsDelimiter(Head(contents))
    /\ name' = <<Head(contents)>> \o name
    /\ contents' = Tail(contents)
    /\ UNCHANGED <<op, pc, card, buffer, found, result,
                   self, label_filter, filtered>>
    /\ UNCHANGED boardVars

\* Loop body, then branch: let line = contents.remove(0); name.push(line);
ParseLoopPush ==
    /\ pc = "loop"
    /\ contents # <<>>
    /\ ~IsDelimiter(Head(contents))
    /\ name' = Append(name, Head(contents))
    /\ contents' = Tail(contents)
    /\ UNCHANGED <<op, pc, card, buffer, found, result,
                   self, label_filter, filtered>>
    /\ UNCHANGED boardVars

\* A loop step that looks at the delimiter line without removing it.
ParseLoopFoundPeek ==
    /\ pc = "loop"
    /\ contents # <<>>
    /\ IsDelimiter(Head(contents))
    /\ found' = TRUE
    /\ pc' = "check"
    /\ UNCHANGED <<op, card, buffer, contents, name, result,
                   self, label_filter, filtered>>
    /\ UNCHANGED boardVars

\* Loop body, else branch: let line = contents.remove(0); found = true; break;
ParseLoopFound ==
    /\ pc = "loop"
    /\ contents # <<>>
    /\ IsDelimiter(Head(contents))
    /\ contents' = Tail(contents)
    /\ found' = TRUE
    /\ pc' = "check"
    /\ UNCHANGED <<op, card, buffer, name, result,
                   self, label_filter, filtered>>
    /\ UNCHANGED boardVars

\* while contents.len() > 0 is false: the lines are exhausted.
ParseLoopExit ==
    /\ pc = "loop"
    /\ contents = <<>>
    /\ pc' = "check"
    /\ UNCHANGED <<op, card, buffer, contents, name, found, result,
                   self, label_filter, filtered>>
    /\ UNCHANGED boardVars

\* if !found { return Err(TrelloError::CardParse(..)) }
ParseErr ==
    /\ pc = "check"
    /\ ~found
    /\ result' = CardParseErr
    /\ pc' = "done"
    /\ UNCHANGED <<op, card, buffer, contents, name, found,
                   self, label_filter, filtered>>
    /\ UNCHANGED boardVars

\* Ok(CardContents { name: name.join("\n"), desc: contents.join("\n") })
ParseOk ==
    /\ pc = "check"
    /\ found
    /\ result' = Ok(Join(name), Join(contents))
    /\ pc' = "done"
    /\ UNCHANGED <<op, card, buffer, contents, name, found,
                   self, label_filter, filtered>>
    /\ UNCHANGED boardVars

Next ==
    \/ Render
    \/ ParseSplit
    \/ ParseFirst
    \/ ParseLoopPush
    \/ ParseLoopFound
    \/ ParseLoopExit
    \/ ParseErr
    \/ ParseOk

Spec == Init /\ [][Next]_vars

\* The buffers with blanks a user can hand to Card::parse.
WsBuffers == UNION {[1..k -> WsAlphabet] : k \in 0..MaxWsBuf}

\* Card::parse(buffer) called on an edited buffer that holds blanks.
InitParseWs ==
    /\ op = "parse"
    /\ pc = "split"
    /\ card = NoCard
    /\ buffer \in WsBuffers
    /\ ParseIdle
    /\ ListIdle
    /\ BoardIdle

NextParse ==
    \/ ParseSplit
    \/ ParseFirst
    \/ ParseLoopPush
    \/ ParseLoopFound
    \/ ParseLoopExit
    \/ ParseErr
    \/ ParseOk

SpecVerbatim == InitParseWs /\ [][NextParse]_vars

(***************************************************************************)
(* List::filter.                                                           *)
(***************************************************************************)
\* The case folding of RegexBuilder::case_insensitive(true).
Lower(c) == IF c = "F" THEN "f" ELSE c

\* Label names and label filters (literal patterns) of the model, over the
\* characters f, F and x.
LabelNames == {<<"F", "x">>, <<"x">>}
Filters == {<<>>, <<"f">>, <<"x">>, <<"x", "f">>}

\* A label, as List::filter reads it: its name.
Labels == [name : LabelNames]

SeqUpTo(S, n) == UNION {[1..k -> S] : k \in 0..n}

\* Option<Vec<Label>>
LabelOptions == {None} \cup {Some(ls) : ls \in SeqUpTo(Labels, MaxLabels)}

\* A card, as List::filter reads it: its identity and its labels.
ListCards == [id : {"1", "2"}, labels : LabelOptions]

\* Option<Vec<Card>>
CardOptions == {None} \cup {Some(cs) : cs \in SeqUpTo(ListCards, MaxCards)}

Lists == [id : {"123"}, name : {"TODO"}, closed : BOOLEAN, cards : CardOptions]

\* A match that compares the characters as they are.
IsMatchCaseSensitive(pat, text) ==
    \E i \in 0..(Len(text) - Len(pat)) :
        \A k \in 1..Len(pat) : text[i + k] = pat[k]

\* re.is_match(text) for the regex built from the literal pattern pat,
\* case-insensitive: pat occurs somewhere in text, case ignored.
IsMatch(pat, text) ==
    \E i \in 0..(Len(text) - Len(pat)) :
        \A k \in 1..Len(pat) : Lower(text[i + k]) = Lower(pat[k])

\* let closure = |c: &Card| -> bool { .. }
closure(re, c) ==
    /\ c.labels.some
    /\ \E i \in 1..Len(c.labels.v) : IsMatch(re, c.labels.v[i].name)

\* cards.into_iter().filter(closure).collect()
RECURSIVE FilterCards(_, _)
FilterCards(re, cards) ==
    IF cards = <<>> THEN <<>>
    ELSE IF closure(re, Head(cards))
         THEN <<Head(cards)>> \o FilterCards(re, Tail(cards))
         ELSE FilterCards(re, Tail(cards))

\* List::filter(&self, label_filter) -> List
filter(list, re) ==
    [list EXCEPT !.cards = IF list.cards.some
                           THEN Some(FilterCards(re, list.cards.v))
                           ELSE None]

InitFilter ==
    /\ op = "filter"
    /\ pc = "filter"
    /\ card = NoCard
    /\ buffer = <<>>
    /\ ParseIdle
    /\ self \in Lists
    /\ label_filter \in Filters
    /\ filtered = NoList
    /\ BoardIdle

\* let filtered = self.filter(label_filter);
Filter ==
    /\ pc = "filter"
    /\ filtered' = filter(self, label_filter)
    /\ pc' = "done"
    /\ UNCHANGED <<op, card, buffer, contents, name, found, result,
                   self, label_filter>>
    /\ UNCHANGED boardVars

NextFilter == Filter

SpecFilter == InitFilter /\ [][NextFilter]_vars

(***************************************************************************)
(* Board::retrieve_nested.                                                 *)
(***************************************************************************)
\* The lists the service can answer with.
BoardLists == [id : {"l1", "l2"}, name : {"TODO"}, closed : {FALSE},
               cards : {None, Some(<<>>)}]

\* Vec<List>
ListVecs == SeqUpTo(BoardLists, MaxFetched)

\* The boards retrieve_nested is called on.
Boards == [id : {"b1"}, name : {"Work"}, closed : BOOLEAN, url : {"u1"},
           lists : {None} \cup {Some(ls) : ls \in ListVecs}]

\* The errors of get_trello_url, of the request and of the decoding.
FetchErrors == {"url", "request", "json"}

\* Result<Vec<List>> of Board::get_all_lists(client, &self.id, true): what
\* the service and the network make of the request.
GetAllListsResults ==
    {RetOk(ls) : ls \in ListVecs} \cup {RetErr(e) : e \in FetchErrors}

InitRetrieve ==
    /\ op = "retrieve_nested"
    /\ pc = "fetch"
    /\ card = NoCard
    /\ buffer = <<>>
    /\ ParseIdle
    /\ ListIdle
    /\ board \in Boards
    /\ response = NoRet
    /\ ret = NoRet

parseVars == <<card, buffer, contents, name, found, result,
               self, label_filter, filtered>>

\* Board::get_all_lists(client, &self.id, true)
GetAllLists ==
    /\ pc = "fetch"
    /\ response' \in GetAllListsResults
    /\ pc' = "try"
    /\ UNCHANGED <<op, board, ret>>
    /\ UNCHANGED parseVars

\* An error return that has already dropped the board's lists.
RetrieveErrCleared ==
    /\ pc = "try"
    /\ response.kind = "err"
    /\ board' = [board EXCEPT !.lists = None]
    /\ ret' = RetErr(response.err)
    /\ pc' = "done"
    /\ UNCHANGED <<op, response>>
    /\ UNCHANGED parseVars

\* The ? operator on an Err: retrieve_nested returns the error.
RetrieveErr ==
    /\ pc = "try"
    /\ response.kind = "err"
    /\ ret' = RetErr(response.err)
    /\ pc' = "done"
    /\ UNCHANGED <<op, board, response>>
    /\ UNCHANGED parseVars

\* self.lists = Some(lists); Ok(())
RetrieveOk ==
    /\ pc = "try"
    /\ response.kind = "ok"
    /\ board' = [board EXCEPT !.lists = Some(response.v)]
    /\ ret' = RetOk(<<>>)
    /\ pc' = "done"
    /\ UNCHANGED <<op, response>>
    /\ UNCHANGED parseVars

NextRetrieve ==
    \/ GetAllLists
    \/ RetrieveErr
    \/ RetrieveOk

SpecRetrieve == InitRetrieve /\ [][NextRetrieve]_vars

(***************************************************************************)
(* The lines of a text, read off the text itself: line i lies between the  *)
(* (i-1)-th and the i-th newline character.  A line "consists entirely of  *)
(* '='" when it holds no other character, which a line of zero characters  *)
(* satisfies (spec.md 4.1: "a line of zero or more = characters").         *)
(***************************************************************************)
NLPos(b) == {p \in 1..Len(b) : b[p] = NL}
NumLines(b) == Cardinality(NLPos(b)) + 1
NthNL(b, n) == CHOOSE p \in NLPos(b) : Cardinality({q \in NLPos(b) : q <= p}) = n
LineStart(b, i) == IF i = 1 THEN 1 ELSE NthNL(b, i - 1) + 1
LineEnd(b, i) == IF i = NumLines(b) THEN Len(b) ELSE NthNL(b, i) - 1
Line(b, i) == SubSeq(b, LineStart(b, i), LineEnd(b, i))
AllEq(l) == \A k \in 1..Len(l) : l[k] = EQ
DelimLines(b) == {i \in 2..NumLines(b) : AllEq(Line(b, i))}
FirstDelim(b) == CHOOSE i \in DelimLines(b) : \A j \in DelimLines(b) : i <= j
\* The text before line i, without the newline that ends it.
Before(b, i) == SubSeq(b, 1, LineEnd(b, i - 1))
\* The text after line i, without the newline that starts it.
After(b, i) == IF i = NumLines(b) THEN <<>> ELSE SubSeq(b, LineStart(b, i + 1), Len(b))

ParseDone == op = "parse" /\ pc = "done"
RoundDone == op = "render_parse" /\ pc = "done"

\* C1: parsing the render of a card whose name has no line consisting
\* entirely of '=' succeeds and returns exactly the card's name and desc.
C1_RoundTrip ==
    (RoundDone /\ \A i \in 1..NumLines(card.name) : ~AllEq(Line(card.name, i)))
        => result = Ok(card.name, card.desc)

C1_Witness ==
    /\ RoundDone
    /\ card.name = <<"a", NL, CR>>
    /\ card.desc = <<EQ>>
    /\ result = Ok(card.name, card.desc)

\* C2: Card::parse ends in the CardParse error exactly when no line after
\* the first consists entirely of '='; otherwise it succeeds.
C2_ErrorExactly ==
    ParseDone =>
        /\ result.kind \in {"ok", "err"}
        /\ result.kind = "err" <=> DelimLines(buffer) = {}

C2_Witness ==
    /\ ParseDone
    /\ NumLines(buffer) >= 3
    /\ Line(buffer, 1) = <<EQ>>
    /\ result = CardParseErr

\* C3: a buffer made of a single-line name N, a line of k >= 1 '='
\* characters and a desc D parses to name N and desc D, whatever k and
\* the length of N are.
C3_DelimiterLength ==
    ParseDone =>
        \A n \in 0..Len(buffer) : \A k \in 1..Len(buffer) :
            LET N == SubSeq(buffer, 1, n)
                D == SubSeq(buffer, n + k + 3, Len(buffer))
            IN  (/\ n + k + 2 <= Len(buffer)
                 /\ \A i \in 1..n : buffer[i] # NL
                 /\ buffer[n + 1] = NL
                 /\ \A i \in 1..k : buffer[n + 1 + i] = EQ
                 /\ buffer[n + k + 2] = NL)
                => result = Ok(N, D)

C3_Witness ==
    /\ ParseDone
    /\ buffer = <<"a", NL, EQ, EQ, NL, "a">>
    /\ result = Ok(<<"a">>, <<"a">>)

\* C4: on success name is the text of the lines before the first delimiter
\* line (the first line after line 1 that is entirely '='), and desc is
\* the text of all lines after it, later '=' lines included.
C4_NameAndDesc ==
    (ParseDone /\ result.kind = "ok") =>
        /\ DelimLines(buffer) # {}
        /\ result.name = Before(buffer, FirstDelim(buffer))
        /\ result.desc = After(buffer, FirstDelim(buffer))

C4_Witness ==
    /\ ParseDone
    /\ buffer = <<NL, "a", NL, EQ, NL, EQ>>
    /\ result = Ok(<<NL, "a">>, <<EQ>>)

\* C5: a successful parse returns a name and a desc, both text; desc is
\* the empty text when the delimiter line is the last line of the buffer
\* or is followed by one empty line only.
C5_DescDefined ==
    (ParseDone /\ result.kind = "ok") =>
        /\ result.name \in Seq(Alphabet)
        /\ result.desc \in Seq(Alphabet)
        /\ DelimLines(buffer) # {}
        /\ LET d == FirstDelim(buffer)
               last == NumLines(buffer)
           IN  (d = last \/ (d = last - 1 /\ Line(buffer, last) = <<>>))
                   => result.desc = <<>>

C5_Witness ==
    /\ ParseDone
    /\ buffer = <<"a", NL, EQ, EQ, EQ, NL>>
    /\ result = Ok(<<"a">>, <<>>)

\* The cards of a list that have a label whose name holds the filter
\* somewhere, letters compared without regard to case.
SameLetter(x, y) == x = y \/ {x, y} = {"f", "F"}
NameMatches(pat, text) ==
    \E i \in 0..Len(text) :
        /\ i + Len(pat) <= Len(text)
        /\ \A k \in 1..Len(pat) : SameLetter(text[i + k], pat[k])
Keeps(pat, c) ==
    /\ c.labels # None
    /\ \E i \in 1..Len(c.labels.v) : NameMatches(pat, c.labels.v[i].name)
KeptAt(pat, cards) == {i \in 1..Len(cards) : Keeps(pat, cards[i])}
NthKept(pat, cards, n) ==
    CHOOSE i \in KeptAt(pat, cards) :
        Cardinality({j \in KeptAt(pat, cards) : j <= i}) = n

FilterDone == op = "filter" /\ pc = "done"

\* What List::filter leaves behind: the list it was called on and the
\* list it returned.
C6_Post ==
    /\ filtered.id = self.id
    /\ filtered.name = self.name
    /\ filtered.closed = self.closed
    /\ self.cards = None => filtered.cards = None
    /\ self.cards # None =>
          /\ filtered.cards.some
          /\ Len(filtered.cards.v) =
                 Cardinality(KeptAt(label_filter, self.cards.v))
          /\ \A n \in 1..Len(filtered.cards.v) :
                 filtered.cards.v[n] =
                     self.cards.v[NthKept(label_filter, self.cards.v, n)]

\* C6: List::filter returns a copy whose cards are exactly the cards of the
\* original, in order, that have a label whose name matches the filter
\* case-insensitively; no cards stays no cards; id, name and closed are
\* those of the original; the original is left as it was.
C6_Filter ==
    [][(op = "filter" /\ pc = "filter") => (self' = self /\ C6_Post')]_vars

C6_Witness ==
    /\ FilterDone
    /\ label_filter = <<"f">>
    /\ Len(self.cards.v) = 2
    /\ self.cards.v[1].labels = Some(<<[name |-> <<"x">>]>>)
    /\ self.cards.v[2].labels =
           Some(<<[name |-> <<"x">>], [name |-> <<"F", "x">>]>>)
    /\ filtered.cards = Some(<<self.cards.v[2]>>)

\* C7: the first line of the buffer is the first line of name and is never
\* tested as a delimiter, also when it is empty or entirely '=': a buffer
\* whose only all-'=' line is the first fails, and when the parse succeeds
\* the name starts with the buffer's first line.
C7_FirstLine ==
    /\ (op = "parse" /\ pc \in {"loop", "check", "done"}) =>
           (name # <<>> /\ name[1] = Line(buffer, 1))
    /\ (ParseDone /\ DelimLines(buffer) = {}) => result = CardParseErr
    /\ (ParseDone /\ result.kind = "ok") =>
           Line(result.name, 1) = Line(buffer, 1)

C7_Witness ==
    /\ ParseDone
    /\ buffer = <<EQ, EQ, NL, EQ, NL, "a">>
    /\ result = Ok(<<EQ, EQ>>, <<"a">>)

\* C8: in the name phase every line after the first that is not a run of
\* one or more '=' characters, the empty line included, is appended to
\* the name's lines and the loop goes on with the next line.
NotEqRun(l) == l = <<>> \/ \E k \in 1..Len(l) : l[k] # EQ
C9_EmptyLineDelimiter ==
    ParseDone =>
        \A i \in 2..NumLines(buffer) :
            (/\ Line(buffer, i) = <<>>
             /\ \A j \in 2..(i - 1) : ~AllEq(Line(buffer, j)))
            => result = Ok(Before(buffer, i), After(buffer, i))

C9_Witness ==
    /\ ParseDone
    /\ buffer = <<"a", NL, NL, EQ, NL, "a">>
    /\ result = Ok(<<"a">>, <<EQ, NL, "a">>)

\* A buffer with CRLF line endings: it has a newline, and a carriage
\* return stands before every newline.
IsCRLF(b) ==
    /\ NLPos(b) # {}
    /\ \A p \in NLPos(b) : p > 1 /\ b[p - 1] = CR
EndsInCR(l) == l # <<>> /\ l[Len(l)] = CR

NameThenDelim(n, k) == n \o <<NL>> \o [i \in 1..k |-> EQ]

\* C11: a successful parse loses nothing but the delimiter line: the
\* buffer is name, newline, a run d of zero or more '=', newline, desc, or,
\* when the delimiter is the buffer's last line, name, newline, d with an
\* empty desc; no blank or other character of a line is trimmed or changed.
C11_Verbatim ==
    (ParseDone /\ result.kind = "ok") =>
        /\ DelimLines(buffer) # {}
        /\ IF FirstDelim(buffer) = NumLines(buffer)
           THEN /\ result.desc = <<>>
                /\ \E k \in 0..Len(buffer) :
                       buffer = NameThenDelim(result.name, k)
           ELSE \E k \in 0..Len(buffer) :
                    buffer = NameThenDelim(result.name, k) \o <<NL>> \o result.desc

C11_Witness ==
    /\ ParseDone
    /\ buffer = <<SP, NL, SP, NL, NL, SP>>
    /\ result = Ok(<<SP, NL, SP>>, <<SP>>)

\* C12: Board::retrieve_nested changes the board only on success: when the
\* fetch fails it returns that error and the board is in every field as
\* before the call; when it succeeds lists is Some of the fetched lists
\* and id, name, closed and url are as before.
C12_RetrieveNested ==
    [][op = "retrieve_nested" =>
        /\ pc' # "done" => board' = board
        /\ (pc' = "done" /\ response.kind = "err") =>
               (ret' = RetErr(response.err) /\ board' = board)
        /\ (pc' = "done" /\ response.kind = "ok") =>
               /\ ret' = RetOk(<<>>)
               /\ board'.lists = Some(response.v)
               /\ board'.id = board.id
               /\ board'.name = board.name
               /\ board'.closed = board.closed
               /\ board'.url = board.url]_vars

C12_Witness ==
    /\ op = "retrieve_nested"
    /\ pc = "done"
    /\ ret = RetErr("request")
    /\ board.lists.some
    /\ Len(board.lists.v) = 2
====
